---- MODULE Spec2Model ----
(***************************************************************************)
(* TradingView sync server (src/index.js): a presence registry of browsers *)
(* (connectedBrowsers), a single leader slot with a heartbeat              *)
(* (syncState.leaderId / syncState.leaderHeartbeat), a shared state blob   *)
(* (the other fields of syncState) and a 10 s timer that evicts browsers   *)
(* not seen for more than 30 s.                                            *)
(*                                                                         *)
(* Node runs every handler and the timer callback to completion on one     *)
(* thread, so each of them is one atomic action.  Date.now() is the        *)
(* variable now, in milliseconds.                                          *)
(***************************************************************************)
EXTENDS Integers, FiniteSets, Sequences, TLC

VARIABLES
  syncState,          \* the syncState object
  connectedBrowsers,  \* the connectedBrowsers object: browserId -> record
  now,                \* Date.now()
  nextSweep,          \* when the setInterval callback runs next
  res,                \* the request just handled and the answer sent
  renewed             \* history: POST /heartbeat wrote leaderHeartbeat last

vars == <<syncState, connectedBrowsers, now, nextSweep, res, renewed>>

----------------------------------------------------------------------------
(* Program constants *)

BROWSER_TIMEOUT == 30000

sweepInterval == 10000

leaderTimeout == 8000

----------------------------------------------------------------------------
(* Bounds of the model *)

\* Date.now() when the process starts.
StartTime == 100000

\* Spec follows the clock for Horizon milliseconds after the start: at every
\* half leader timeout, one millisecond after every whole one, and at every
\* timer tick.
Horizon == 10000

Step == leaderTimeout \div 2

\* SpecLong follows it for LongHorizon milliseconds: at every timer tick and
\* one millisecond after every whole presence timeout.
LongHorizon == 40000

\* Browser ids are strings, written as sequences of characters.  The empty
\* string stands for every falsy id (undefined, null, ""): the code tests ids
\* only with !id, id && ... and ===.
NoId == <<>>

Ids == {<<"A">>, <<"B">>}

\* A request's timestamp / leaderHeartbeat field; 0 stands for every falsy
\* value (undefined, null, 0): the code reads it only in `x || Date.now()`.
NoTs == 0

\* Client clocks: a supplied timestamp is behind the server's clock or ahead
\* of it.
Behind == {0 - 10000}

Ahead == {BROWSER_TIMEOUT + sweepInterval}

Timestamps(t, offsets) == {NoTs} \cup {t + o : o \in offsets}

\* The tf tag of a request; "" stands for every falsy value.
NoTf == ""

Tfs == {NoTf, "15"}

BrowserIds == Ids \cup {NoId}

EmptyObj == [k \in {} |-> 0]

----------------------------------------------------------------------------
(* Helpers *)

\* s.slice(-8): the last eight characters of s.
slice8(s) == IF Len(s) > 8 THEN SubSeq(s, Len(s) - 7, Len(s)) ELSE s

\* Math.round(ms / 1000) for ms >= 0: halves round up.
roundSeconds(ms) == (ms + 500) \div 1000

\* a || b
OrElse(a, falsy, b) == IF a = falsy THEN b ELSE a

\* obj[k], undefined (written as the falsy value) when the key is absent
Get(obj, k, falsy) == IF k \in DOMAIN obj THEN obj[k] ELSE falsy

\* const { k1, k2, ...rest } = obj
Omit(obj, keys) == [k \in (DOMAIN obj) \ keys |-> obj[k]]

\* { ...a, ...b }
Spread(a, b) == b @@ a

DefaultState ==
  [ leaderId        |-> NoId,
    leaderHeartbeat |-> 0,
    currentIndex    |-> 0,
    rotateInterval  |-> 7,
    fetchInterval   |-> 120,
    colLInterval    |-> 10,
    selectedFilters |-> <<"Comfortable">>,
    filteredData    |-> <<>>,
    alertSettings   |-> EmptyObj ]

\* Mutant: the 20 s test comes before the 10 s test.
browserStatus_offlineFirst(isLeader, secondsAgo) ==
  IF isLeader THEN "leader"
  ELSE IF secondsAgo > 20 THEN "offline"
  ELSE IF secondsAgo > 10 THEN "warning"
  ELSE "online"

\* status of one browser in getBrowserStats
browserStatus(isLeader, secondsAgo) ==
  IF isLeader THEN "leader"
  ELSE IF secondsAgo > 10 THEN "warning"
  ELSE IF secondsAgo > 20 THEN "offline"
  ELSE "online"

\* Mutant: every browser is shown as leader once there is a leader.
isLeaderBrowser_anyLeader(ss, id) == ss.leaderId # NoId

\* isLeader of one browser in getBrowserStats
isLeaderBrowser(ss, id) == ss.leaderId = id

\* One element of browsersList in getBrowserStats.
browserInfo(ss, cb, id, t) ==
  LET secondsAgo == roundSeconds(t - cb[id].lastSeen)
  IN [ id        |-> slice8(id),
       browserId |-> id,
       isLeader  |-> isLeaderBrowser(ss, id),
       status    |-> browserStatus(isLeaderBrowser(ss, id), secondsAgo),
       lastSeen  |-> <<secondsAgo, "s ago">>,
       tf        |-> OrElse(cb[id].tf, NoTf, "5") ]

\* getBrowserStats(); browsersList is kept as a set, one element for each
\* key of connectedBrowsers (its order is the insertion order of the keys,
\* which nothing reads).
getBrowserStats(ss, cb, t) ==
  [ totalBrowsers  |-> Cardinality(DOMAIN cb),
    browsersOnline |->
      Cardinality({id \in DOMAIN cb : browserInfo(ss, cb, id, t).status # "offline"}),
    browsersList   |-> {browserInfo(ss, cb, id, t) : id \in DOMAIN cb} ]

registerBrowser(cb, browserId, tf, t) ==
  [id \in (DOMAIN cb) \cup {browserId} |->
     IF id = browserId
       THEN [lastSeen |-> t, tf |-> OrElse(tf, NoTf, "5")]
       ELSE cb[id]]

----------------------------------------------------------------------------
(* The last thing the server did: the endpoint (op), the request's query or *)
(* body (req), the HTTP status and JSON body sent, the leader there was     *)
(* before (the claim handler reads it for its log line and its rejection    *)
(* reason, the cleanup logs it), and whether that leader's heartbeat had    *)
(* timed out when a claim came.  Cleared when the clock moves.              *)

Response(op, req, status, body, previous, timedOut) ==
  [op |-> op, req |-> req, status |-> status, body |-> body,
   previous |-> previous, timedOut |-> timedOut]

NoRes == Response("none", EmptyObj, 0, EmptyObj, NoId, FALSE)

\* The bodies of POST /claim-leader and POST /heartbeat, the query of
\* GET /sync-state.
ClaimReq(browserId, timestamp, force, tf) ==
  [browserId |-> browserId, timestamp |-> timestamp, force |-> force, tf |-> tf]

HeartbeatReq(browserId, tf, isLeader) ==
  [browserId |-> browserId, tf |-> tf, isLeader |-> isLeader]

GetReq(browserId, tf) == [browserId |-> browserId, tf |-> tf]

(* renewed holds while leaderHeartbeat is the value a POST /heartbeat of    *)
(* the leader gave it, until anything else writes the leadership.          *)

History(renewal) ==
  renewed' =
    IF renewal THEN TRUE
    ELSE IF /\ syncState'.leaderId = syncState.leaderId
            /\ syncState'.leaderHeartbeat = syncState.leaderHeartbeat
      THEN renewed
      ELSE FALSE

Init ==
  /\ syncState = DefaultState
  /\ connectedBrowsers = EmptyObj
  /\ now = StartTime
  /\ nextSweep = StartTime + sweepInterval
  /\ res = NoRes
  /\ renewed = FALSE

----------------------------------------------------------------------------
(* The clock and the cleanup timer *)

\* The instants the clock may move to next: one millisecond on, when now is
\* a multiple of `late` after the start; the next multiple of `step`; the next
\* timer tick, which it never passes.
NextInstants(step, late, horizon) ==
  { t \in {now + 1, now + step - ((now - StartTime) % step), nextSweep} :
      /\ t > now
      /\ t = now + 1 => (now - StartTime) % late = 0
      /\ t <= nextSweep
      /\ t <= StartTime + horizon }

\* Time passes with no request and no timer tick in between.
Advance(step, late, horizon) ==
  /\ \E t \in NextInstants(step, late, horizon) : now' = t
  /\ res' = NoRes
  /\ UNCHANGED <<syncState, connectedBrowsers, nextSweep, renewed>>

\* Mutant: the cleanup waits one more timer period.
staleBrowsers_slow(cb, t) ==
  {id \in DOMAIN cb : t - cb[id].lastSeen > BROWSER_TIMEOUT + sweepInterval}

\* Mutant: the cleanup deletes nothing.
staleBrowsers_never(cb, t) == {}

\* The browsers the cleanup deletes at time t.
staleBrowsers(cb, t) ==
  {id \in DOMAIN cb : t - cb[id].lastSeen > BROWSER_TIMEOUT}

\* Mutant: the cleanup clears leaderId and forgets leaderHeartbeat.
clearLeadership_keepsHeartbeat(ss, stale) ==
  IF ss.leaderId \in stale THEN [ss EXCEPT !.leaderId = NoId] ELSE ss

\* Mutant: the cleanup leaves the leadership alone.
clearLeadership_never(ss, stale) == ss

\* Mutant: the cleanup clears the leadership whenever it deletes a record.
clearLeadership_always(ss, stale) ==
  IF stale # {}
    THEN [ss EXCEPT !.leaderId = NoId, !.leaderHeartbeat = 0]
    ELSE ss

\* What the cleanup does to the leadership when it deletes `stale`.
clearLeadership(ss, stale) ==
  IF ss.leaderId \in stale
    THEN [ss EXCEPT !.leaderId = NoId, !.leaderHeartbeat = 0]
    ELSE ss

\* The setInterval callback.
Sweep ==
  /\ now = nextSweep
  /\ LET stale == staleBrowsers(connectedBrowsers, now)
     IN /\ connectedBrowsers' = Omit(connectedBrowsers, stale)
        /\ syncState' = clearLeadership(syncState, stale)
        /\ res' = Response("sweep", EmptyObj, 0,
                           [cleaned |-> Cardinality(stale)],
                           IF syncState.leaderId \in stale
                             THEN syncState.leaderId ELSE NoId,
                           FALSE)
  /\ nextSweep' = nextSweep + sweepInterval
  /\ History(FALSE)
  /\ UNCHANGED now

----------------------------------------------------------------------------
(* Endpoints *)

\* GET /health
HealthCheck ==
  /\ res' = Response("health", EmptyObj, 200,
                     [ status   |-> "ok",
                       version  |-> "2.2.0",
                       browsers |-> Cardinality(DOMAIN connectedBrowsers),
                       leader   |-> IF syncState.leaderId # NoId
                                      THEN slice8(syncState.leaderId)
                                      ELSE <<"n", "o", "n", "e">> ],
                     NoId, FALSE)
  /\ UNCHANGED <<syncState, connectedBrowsers, now, nextSweep, renewed>>

\* GET /browsers
GetBrowsers ==
  /\ res' = Response("browsers", EmptyObj, 200,
                     getBrowserStats(syncState, connectedBrowsers, now),
                     NoId, FALSE)
  /\ UNCHANGED <<syncState, connectedBrowsers, now, nextSweep, renewed>>

\* GET /sync-state
GetState(browserId, tf) ==
  LET cb1 == IF browserId # NoId
               THEN registerBrowser(connectedBrowsers, browserId, tf, now)
               ELSE connectedBrowsers
  IN /\ connectedBrowsers' = cb1
     /\ res' = Response("getState", GetReq(browserId, tf), 200,
                        Spread(syncState, getBrowserStats(syncState, cb1, now)),
                        NoId, FALSE)
     /\ UNCHANGED <<syncState, now, nextSweep, renewed>>

\* Mutant: the whole body is merged, leaderId and leaderHeartbeat included.
stateUpdatesOf_wholeBody(body) == body

\* The fields of a POST /sync-state body that are merged into syncState.
stateUpdatesOf(body) ==
  Omit(Omit(body, {"leaderId", "leaderHeartbeat"}),
       {"leaderId", "leaderHeartbeat"})

\* Mutant: POST /sync-state refreshes the heartbeat for any sender.
senderIsLeader_anyone(ss, leaderId) == leaderId # NoId

\* Whether POST /sync-state refreshes the leader's heartbeat.
senderIsLeader(ss, leaderId) == leaderId # NoId /\ leaderId = ss.leaderId

\* POST /sync-state
PostState(body) ==
  LET leaderId == Get(body, "leaderId", NoId)
      leaderHeartbeat == Get(body, "leaderHeartbeat", NoTs)
      cb1 == IF leaderId # NoId
               THEN registerBrowser(connectedBrowsers, leaderId,
                                    Get(body, "tf", NoTf), now)
               ELSE connectedBrowsers
      ss1 == IF senderIsLeader(syncState, leaderId)
               THEN [syncState EXCEPT
                       !.leaderHeartbeat = OrElse(leaderHeartbeat, NoTs, now)]
               ELSE syncState
      ss2 == Spread(ss1, stateUpdatesOf(body))
  IN /\ connectedBrowsers' = cb1
     /\ syncState' = ss2
     /\ res' = Response("postState", body, 200,
                        Spread([success |-> TRUE],
                               getBrowserStats(ss2, cb1, now)),
                        NoId, FALSE)
     /\ History(FALSE)
     /\ UNCHANGED <<now, nextSweep>>

\* The 400 answer of POST /claim-leader and POST /heartbeat.
BadRequest == [success |-> FALSE, error |-> "browserId required"]

\* Mutant: the claim handler waits for the presence timeout.
leaderTimedOut_presenceTimeout(ss, t) == t - ss.leaderHeartbeat > BROWSER_TIMEOUT

\* Mutant: a heartbeat exactly leaderTimeout old counts as timed out.
leaderTimedOut_inclusive(ss, t) == t - ss.leaderHeartbeat >= leaderTimeout

\* The leader's heartbeat is older than the leader timeout.
leaderTimedOut(ss, t) == t - ss.leaderHeartbeat > leaderTimeout

\* Mutant: force is ignored.
claimBranch_ignoresForce(ss, browserId, force, t) ==
  IF ss.leaderId = NoId \/ leaderTimedOut(ss, t) THEN "claimed"
  ELSE IF ss.leaderId = browserId THEN "reclaim"
  ELSE "rejected"

\* The return POST /claim-leader leaves by, for a request with a browserId.
claimBranch(ss, browserId, force, t) ==
  IF force THEN "force"
  ELSE IF ss.leaderId = NoId \/ leaderTimedOut(ss, t) THEN "claimed"
  ELSE IF ss.leaderId = browserId THEN "reclaim"
  ELSE "rejected"

\* syncState after a claim that is granted.
grantLeadership(ss, browserId, timestamp, t) ==
  [ss EXCEPT !.leaderId = browserId,
             !.leaderHeartbeat = OrElse(timestamp, NoTs, t)]

\* POST /claim-leader
ClaimLeader(browserId, timestamp, force, tf) ==
  IF browserId = NoId
    THEN /\ res' = Response("claim", ClaimReq(browserId, timestamp, force, tf),
                            400, BadRequest, NoId, FALSE)
         /\ UNCHANGED <<syncState, connectedBrowsers, now, nextSweep, renewed>>
    ELSE
      LET cb1 == registerBrowser(connectedBrowsers, browserId, tf, now)
          branch == claimBranch(syncState, browserId, force, now)
          ss1 == CASE branch = "force" ->
                        grantLeadership(syncState, browserId, timestamp, now)
                   [] branch = "claimed" ->
                        grantLeadership(syncState, browserId, timestamp, now)
                   [] branch = "reclaim" ->
                        [syncState EXCEPT
                           !.leaderHeartbeat = OrElse(timestamp, NoTs, now)]
                   [] branch = "rejected" -> syncState
          stats == getBrowserStats(ss1, cb1, now)
          body == IF branch = "rejected"
                    THEN Spread([ success  |-> FALSE,
                                  leaderId |-> syncState.leaderId,
                                  reason   |-> <<"Leader", slice8(syncState.leaderId),
                                                 "is active">> ], stats)
                    ELSE Spread([success |-> TRUE, leaderId |-> browserId],
                                stats)
      IN /\ connectedBrowsers' = cb1
         /\ syncState' = ss1
         /\ res' = Response("claim", ClaimReq(browserId, timestamp, force, tf),
                            200, body,
                            syncState.leaderId, leaderTimedOut(syncState, now))
         /\ History(FALSE)
         /\ UNCHANGED <<now, nextSweep>>

\* Mutant: POST /heartbeat only touches the presence record.
heartbeatRenews_never(ss, browserId, isLeader) == FALSE

\* Mutant: POST /heartbeat believes the isLeader flag of any browser.
heartbeatRenews_anyone(ss, browserId, isLeader) == isLeader

\* Whether POST /heartbeat renews the leader's heartbeat.
heartbeatRenews(ss, browserId, isLeader) ==
  isLeader /\ ss.leaderId = browserId

\* POST /heartbeat
Heartbeat(browserId, tf, isLeader) ==
  IF browserId = NoId
    THEN /\ res' = Response("heartbeat", HeartbeatReq(browserId, tf, isLeader),
                            400, BadRequest, NoId, FALSE)
         /\ UNCHANGED <<syncState, connectedBrowsers, now, nextSweep, renewed>>
    ELSE
      LET cb1 == registerBrowser(connectedBrowsers, browserId, tf, now)
          ss1 == IF heartbeatRenews(syncState, browserId, isLeader)
                   THEN [syncState EXCEPT !.leaderHeartbeat = now]
                   ELSE syncState
      IN /\ connectedBrowsers' = cb1
         /\ syncState' = ss1
         /\ res' = Response("heartbeat", HeartbeatReq(browserId, tf, isLeader),
                            200,
                            Spread([success |-> TRUE],
                                   getBrowserStats(ss1, cb1, now)),
                            NoId, FALSE)
         /\ History(heartbeatRenews(syncState, browserId, isLeader))
         /\ UNCHANGED <<now, nextSweep>>

\* GET /
Root ==
  /\ res' = Response("root", EmptyObj, 200,
                     Spread([ name          |-> "TradingView Sync Server",
                              version       |-> "2.2.0",
                              currentLeader |-> IF syncState.leaderId # NoId
                                                  THEN slice8(syncState.leaderId)
                                                  ELSE <<"n", "o", "n", "e">>,
                              lastHeartbeat |-> syncState.leaderHeartbeat ],
                            getBrowserStats(syncState, connectedBrowsers, now)),
                     NoId, FALSE)
  /\ UNCHANGED <<syncState, connectedBrowsers, now, nextSweep, renewed>>

\* Mutant: POST /reset keeps the fields merged since the start.
ResetState_keepsExtras == Spread(syncState, DefaultState)

\* The object POST /reset assigns to syncState.
ResetState ==
  [ leaderId        |-> NoId,
    leaderHeartbeat |-> 0,
    currentIndex    |-> 0,
    rotateInterval  |-> 7,
    fetchInterval   |-> 120,
    colLInterval    |-> 10,
    selectedFilters |-> <<"Comfortable">>,
    filteredData    |-> <<>>,
    alertSettings   |-> EmptyObj ]

\* POST /reset
Reset ==
  /\ syncState' = ResetState
  /\ connectedBrowsers' = EmptyObj
  /\ res' = Response("reset", EmptyObj, 200,
                     [success |-> TRUE, message |-> "State reset"],
                     syncState.leaderId, FALSE)
  /\ History(FALSE)
  /\ UNCHANGED <<now, nextSweep>>

----------------------------------------------------------------------------
(* Requests *)

\* One optional field of a JSON body.
Field(k, present, v) == IF present THEN (k :> v) ELSE EmptyObj

\* A field of the shared state that is not in its default shape; "" stands
\* for a body without it.
NoSymbol == ""

Symbols == {NoSymbol, "BTCUSD"}

\* The POST /sync-state bodies: any of leaderId, leaderHeartbeat, tf and
\* symbol may be missing.
PostBodies(tss, tfs, symbols) ==
  { Field("leaderId", id # NoId, id) @@ Field("leaderHeartbeat", ts # NoTs, ts)
      @@ Field("tf", tf # NoTf, tf) @@ Field("symbol", sy # NoSymbol, sy) :
      id \in BrowserIds, ts \in tss, tf \in tfs, sy \in symbols }

\* Spec: the election against the clock.  Timestamps are absent or behind.
Next ==
  \/ Advance(Step, leaderTimeout, Horizon)
  \/ Sweep
  \/ HealthCheck
  \/ GetBrowsers
  \/ \E id \in BrowserIds : GetState(id, NoTf)
  \/ \E body \in PostBodies(Timestamps(now, Behind), {NoTf}, {NoSymbol}) :
        PostState(body)
  \/ \E id \in BrowserIds, ts \in Timestamps(now, Behind), force \in BOOLEAN :
        ClaimLeader(id, ts, force, NoTf)
  \/ \E id \in BrowserIds, isLeader \in BOOLEAN : Heartbeat(id, NoTf, isLeader)
  \/ Reset
  \/ Root

Spec == Init /\ [][Next]_vars

\* SpecState: the shared state, up to the first timer tick.
NextState ==
  \/ Advance(sweepInterval, sweepInterval, Horizon)
  \/ Sweep
  \/ HealthCheck
  \/ GetBrowsers
  \/ \E id \in BrowserIds : GetState(id, NoTf)
  \/ \E body \in PostBodies(Timestamps(now, Behind), {NoTf}, Symbols) :
        PostState(body)
  \/ \E id \in BrowserIds, force \in BOOLEAN : ClaimLeader(id, NoTs, force, NoTf)
  \/ \E id \in BrowserIds, isLeader \in BOOLEAN : Heartbeat(id, NoTf, isLeader)
  \/ Reset
  \/ Root

SpecState == Init /\ [][NextState]_vars

\* SpecLong: the cleanup timer, long enough for browsers to be evicted.
\* Timestamps are absent or ahead.
NextLong ==
  \/ Advance(sweepInterval, BROWSER_TIMEOUT, LongHorizon)
  \/ Sweep
  \/ HealthCheck
  \/ GetBrowsers
  \/ \E id \in BrowserIds : GetState(id, NoTf)
  \/ \E body \in PostBodies(Timestamps(now, Ahead), {NoTf}, {NoSymbol}) :
        PostState(body)
  \/ \E id \in BrowserIds, ts \in Timestamps(now, Ahead), force \in BOOLEAN :
        ClaimLeader(id, ts, force, NoTf)
  \/ \E id \in BrowserIds, isLeader \in BOOLEAN : Heartbeat(id, NoTf, isLeader)
  \/ Reset
  \/ Root

SpecLong == Init /\ [][NextLong]_vars

\* SpecTag: the tf tag of the presence records, up to the first timer tick.
NextTag ==
  \/ Advance(sweepInterval, sweepInterval, Horizon)
  \/ Sweep
  \/ HealthCheck
  \/ GetBrowsers
  \/ \E id \in BrowserIds, tf \in Tfs : GetState(id, tf)
  \/ \E body \in PostBodies({NoTs}, Tfs, {NoSymbol}) : PostState(body)
  \/ \E id \in BrowserIds, force \in BOOLEAN, tf \in Tfs :
        ClaimLeader(id, NoTs, force, tf)
  \/ \E id \in BrowserIds, tf \in Tfs, isLeader \in BOOLEAN :
        Heartbeat(id, tf, isLeader)
  \/ Reset
  \/ Root

SpecTag == Init /\ [][NextTag]_vars

\* SpecLive: a leader that goes silent and a challenger that keeps claiming.
\* The leader's browser is heard of during the first LastContact
\* milliseconds only, with any request and any timestamp; the challenger
\* sends claims without force for ever.
Leader == <<"A">>

Challenger == <<"B">>

LastContact == 1

LeaderContact ==
  /\ now <= StartTime + LastContact
  /\ \/ \E ts \in Timestamps(now, Behind \cup Ahead), force \in BOOLEAN :
          ClaimLeader(Leader, ts, force, NoTf)
     \/ \E isLeader \in BOOLEAN : Heartbeat(Leader, NoTf, isLeader)
     \/ \E ts \in Timestamps(now, Behind \cup Ahead) :
          PostState(Field("leaderId", TRUE, Leader)
                      @@ Field("leaderHeartbeat", ts # NoTs, ts))
     \/ GetState(Leader, NoTf)

ChallengerClaims ==
  \E ts \in Timestamps(now, Behind \cup Ahead) :
    ClaimLeader(Challenger, ts, FALSE, NoTf)

NextLive ==
  \/ Advance(sweepInterval, BROWSER_TIMEOUT, LongHorizon)
  \/ Sweep
  \/ LeaderContact
  \/ ChallengerClaims

\* Time passes, the timer fires when due, and the challenger keeps claiming.
SpecLive ==
  /\ Init /\ [][NextLive]_vars
  /\ WF_vars(Advance(sweepInterval, BROWSER_TIMEOUT, LongHorizon))
  /\ WF_vars(Sweep)
  /\ WF_vars(ChallengerClaims)

----------------------------------------------------------------------------
(* Properties.  A step of an endpoint is told by what it leaves in res:  *)
(* res'.op, the request res'.req and the answer res'.status, res'.body.     *)

\* timestamp || Date.now(), spelt out.
TsOrNow(ts) == IF ts = NoTs THEN now ELSE ts

Stats == getBrowserStats(syncState, connectedBrowsers, now)

\* A step of POST /claim-leader that got past the browserId check.
ClaimStep == res'.op = "claim" /\ res'.status = 200

\* The last request was a POST /claim-leader that got past the check.
Claimed == res.op = "claim" /\ res.status = 200

\* C1: at most one id is leaderId, and the presence snapshot has at most one
\* record with status 'leader' and at most one with isLeader true.
C1_OneLeader ==
  /\ Cardinality({id \in Ids : syncState.leaderId = id}) <= 1
  /\ Cardinality({b \in Stats.browsersList : b.status = "leader"}) <= 1
  /\ Cardinality({b \in Stats.browsersList : b.isLeader}) <= 1

\* Leadership has just moved from one registered browser to another.
C1_Witness ==
  /\ Claimed /\ res.body.success
  /\ res.previous \notin {NoId, res.req.browserId}
  /\ DOMAIN connectedBrowsers = Ids
  /\ Cardinality({b \in Stats.browsersList : b.status = "leader"}) = 1

\* C2: a non-force claim from an id other than the leader's, made when the
\* leader's heartbeat is more than 8000 ms old, succeeds; leaderId becomes the
\* claimant and leaderHeartbeat the claim's timestamp, or now without one.
C2_TimeoutFailover ==
  [][( /\ ClaimStep /\ ~res'.req.force
       /\ syncState.leaderId \notin {NoId, res'.req.browserId}
       /\ now - syncState.leaderHeartbeat > 8000 )
     => /\ res'.body.success
        /\ res'.body.leaderId = res'.req.browserId
        /\ syncState'.leaderId = res'.req.browserId
        /\ syncState'.leaderHeartbeat = TsOrNow(res'.req.timestamp)]_vars

\* A claim without force or timestamp has replaced a leader last heard of
\* 8001 ms earlier.
C2_Witness ==
  /\ Claimed /\ ~res.req.force /\ res.req.timestamp = NoTs
  /\ res.body.success
  /\ res.previous \notin {NoId, res.req.browserId} /\ res.timedOut
  /\ res.previous \in DOMAIN connectedBrowsers
  /\ now - connectedBrowsers[res.previous].lastSeen = 8001
  /\ syncState.leaderId = res.req.browserId
  /\ syncState.leaderHeartbeat = now

\* C3: POST /heartbeat of the leader with isLeader sets leaderHeartbeat to
\* now, and while that value stands a non-force claim from another id made
\* within 8000 ms of it (4001 ms after a renewal at t0 + 4000, say) fails and
\* leaves the leader and its heartbeat alone.
C3_HeartbeatBlocksFailover ==
  /\ [][( /\ res'.op = "heartbeat" /\ res'.status = 200
          /\ res'.req.isLeader
          /\ syncState.leaderId = res'.req.browserId )
        => /\ syncState'.leaderId = syncState.leaderId
           /\ syncState'.leaderHeartbeat = now
           /\ renewed']_vars
  /\ [][( /\ ClaimStep /\ ~res'.req.force
          /\ renewed
          /\ syncState.leaderId # res'.req.browserId
          /\ now - syncState.leaderHeartbeat <= 8000 )
        => /\ ~res'.body.success
           /\ syncState'.leaderId = syncState.leaderId
           /\ syncState'.leaderHeartbeat = syncState.leaderHeartbeat]_vars

\* The leader renewed its heartbeat by POST /heartbeat 4000 ms after the
\* start and was not heard of since; a claim from another id 4001 ms later
\* was rejected.
C3_Witness ==
  /\ Claimed /\ ~res.req.force
  /\ ~res.body.success
  /\ renewed
  /\ syncState.leaderId \in DOMAIN connectedBrowsers
  /\ connectedBrowsers[syncState.leaderId].lastSeen = syncState.leaderHeartbeat
  /\ syncState.leaderHeartbeat = StartTime + 4000
  /\ now = syncState.leaderHeartbeat + 4001

\* C4: a claim with force and a browserId succeeds in every state; leaderId
\* becomes the caller and leaderHeartbeat the timestamp, or now without one.
C4_ForceBypass ==
  [][( /\ res'.op = "claim" /\ res'.req.force
       /\ res'.req.browserId # NoId )
     => /\ res'.status = 200 /\ res'.body.success
        /\ res'.body.leaderId = res'.req.browserId
        /\ syncState'.leaderId = res'.req.browserId
        /\ syncState'.leaderHeartbeat = TsOrNow(res'.req.timestamp)]_vars

\* A force claim has replaced a leader whose heartbeat was still fresh.
C4_Witness ==
  /\ Claimed /\ res.req.force
  /\ res.body.success
  /\ res.previous \notin {NoId, res.req.browserId} /\ ~res.timedOut
  /\ syncState.leaderId = res.req.browserId

\* C5: a timer tick that deletes the leader's record sets leaderId to empty
\* and leaderHeartbeat to 0; a tick that does not leaves both unchanged.
C5_EvictionClearsLeadership ==
  [][res'.op = "sweep" =>
       IF syncState.leaderId \in
            (DOMAIN connectedBrowsers) \ (DOMAIN connectedBrowsers')
         THEN /\ syncState'.leaderId = NoId
              /\ syncState'.leaderHeartbeat = 0
         ELSE /\ syncState'.leaderId = syncState.leaderId
              /\ syncState'.leaderHeartbeat = syncState.leaderHeartbeat]_vars

\* A tick has just deleted the leader's record.
C5_Witness ==
  /\ res.op = "sweep" /\ res.body.cleaned >= 1
  /\ res.previous # NoId
  /\ res.previous \notin DOMAIN connectedBrowsers
  /\ syncState.leaderId = NoId /\ syncState.leaderHeartbeat = 0

\* C6 as stated: POST /sync-state with leaderId or leaderHeartbeat in its body
\* changes neither leaderId nor leaderHeartbeat.
C6_Original ==
  [][( /\ res'.op = "postState"
       /\ {"leaderId", "leaderHeartbeat"} \cap DOMAIN res'.req # {} )
     => /\ syncState'.leaderId = syncState.leaderId
        /\ syncState'.leaderHeartbeat = syncState.leaderHeartbeat]_vars

\* C6 amended: POST /sync-state never changes leaderId, and changes
\* leaderHeartbeat only when the body's leaderId is the current leader: then
\* to the body's leaderHeartbeat, or to now without one.
C6_ProtectedFields ==
  [][res'.op = "postState"
     => /\ syncState'.leaderId = syncState.leaderId
        /\ syncState'.leaderHeartbeat =
             IF /\ "leaderId" \in DOMAIN res'.req
                /\ res'.req.leaderId = syncState.leaderId
               THEN TsOrNow(Get(res'.req, "leaderHeartbeat", NoTs))
               ELSE syncState.leaderHeartbeat]_vars

\* A browser that is not the leader has posted a body with its own id as
\* leaderId, a leaderHeartbeat and a new field; the field is stored and the
\* leader is still the other browser.
C6_Witness ==
  /\ res.op = "postState"
  /\ {"leaderId", "leaderHeartbeat", "symbol"} \subseteq DOMAIN res.req
  /\ syncState.leaderId \notin {NoId, res.req.leaderId}
  /\ syncState.leaderHeartbeat # res.req.leaderHeartbeat
  /\ "symbol" \in DOMAIN syncState

\* What GET /sync-state answers when syncState has its default shape and the
\* browsers of `ids` are registered, just seen and none the leader.
DefaultAnswer(ids) ==
  Spread(DefaultState,
         [ totalBrowsers  |-> Cardinality(ids),
           browsersOnline |-> Cardinality(ids),
           browsersList   |-> { [ id |-> slice8(id), browserId |-> id,
                                  isLeader |-> FALSE, status |-> "online",
                                  lastSeen |-> <<0, "s ago">>,
                                  tf |-> "5" ] : id \in ids } ])

\* C7 as stated: GET /sync-state right after POST /reset, with or without a
\* browserId, answers the default shape and no registered browser.
C7_Original ==
  [][(res.op = "reset" /\ res'.op = "getState")
     => res'.body = DefaultAnswer({})]_vars

\* C7 amended: POST /reset leaves the default shape and an empty registry
\* whatever came before (so a second reset changes nothing); GET /sync-state
\* right after it answers the default shape with no browser when it carries
\* no browserId, and with the caller as the one registered browser when it
\* carries one.
C7_ResetThenGetState ==
  /\ [](res.op = "reset" =>
          /\ syncState = DefaultState
          /\ connectedBrowsers = EmptyObj)
  /\ [][(res.op = "reset" /\ res'.op = "getState")
        => res'.body = DefaultAnswer({res'.req.browserId} \ {NoId})]_vars

\* POST /reset has just wiped a state with a leader.
C7_Witness ==
  /\ res.op = "reset" /\ res.previous # NoId
  /\ syncState = DefaultState
  /\ connectedBrowsers = EmptyObj

\* C8: of two non-force claims from different ids handled one right after
\* the other at the same instant, the second fails when the first succeeded.
C8_NotBothSucceed ==
  [][( /\ Claimed /\ ~res.req.force /\ res.body.success
       /\ ClaimStep /\ ~res'.req.force
       /\ res'.req.browserId # res.req.browserId )
     => ~res'.body.success]_vars

\* C9: a non-force claim from an id other than leaderId, made when the
\* leader's heartbeat is at most 8000 ms old, is answered success = false
\* with the current leaderId and a reason; syncState is unchanged and in the
\* registry only the claimant's record is touched.
C9_RejectedClaim ==
  [][( /\ ClaimStep /\ ~res'.req.force
       /\ syncState.leaderId # res'.req.browserId
       /\ now - syncState.leaderHeartbeat <= 8000 )
     => /\ ~res'.body.success
        /\ res'.body.leaderId = syncState.leaderId
        /\ "reason" \in DOMAIN res'.body
        /\ syncState' = syncState
        /\ DOMAIN connectedBrowsers' =
             DOMAIN connectedBrowsers \cup {res'.req.browserId}
        /\ \A b \in DOMAIN connectedBrowsers \ {res'.req.browserId} :
             connectedBrowsers'[b] = connectedBrowsers[b]
        /\ connectedBrowsers'[res'.req.browserId].lastSeen = now]_vars

\* A claim was rejected when the leader's heartbeat was exactly 8000 ms old.
C9_Witness ==
  /\ Claimed /\ ~res.req.force
  /\ ~res.body.success
  /\ res.body.leaderId = syncState.leaderId
  /\ now - syncState.leaderHeartbeat = 8000

\* The browser id of the request answered by a step of one of the three
\* POST endpoints that need one.
CallerId ==
  IF res'.op = "postState" THEN Get(res'.req, "leaderId", NoId)
  ELSE res'.req.browserId

\* C10: POST /sync-state, POST /claim-leader and POST /heartbeat without a
\* browser id answer 400 and leave the registry and syncState unchanged.
C10_MissingIdRejected ==
  [][( /\ res'.op \in {"postState", "claim", "heartbeat"}
       /\ CallerId = NoId )
     => /\ res'.status = 400
        /\ connectedBrowsers' = connectedBrowsers
        /\ syncState' = syncState]_vars

\* The timer tick before now, or at now once it has run.
lastSweep == nextSweep - sweepInterval

\* Milliseconds since the browser was last seen.
age(id) == now - connectedBrowsers[id].lastSeen

\* C11 as stated: a leader that claimed and was not heard of since has no
\* record left once 30001 ms have passed and the tick due by then has run,
\* whatever the phase of the timer.
C11_Original ==
  \A id \in DOMAIN connectedBrowsers :
    (syncState.leaderId = id /\ now < nextSweep) => age(id) <= BROWSER_TIMEOUT

\* C11 amended: a record is deleted by the first timer tick that finds it
\* more than 30000 ms old, so a record is never older than 30000 ms plus the
\* time since the last tick (40000 ms at most); after that tick GET /browsers
\* lists no such record and, if it was the leader's, leaderId is empty.
C11_EvictedByNextSweep ==
  /\ [](\A id \in DOMAIN connectedBrowsers :
          age(id) <= BROWSER_TIMEOUT + (now - lastSweep))
  /\ [][res'.op = "sweep" =>
          /\ \A id \in DOMAIN connectedBrowsers' :
                now - connectedBrowsers'[id].lastSeen <= BROWSER_TIMEOUT
          /\ (/\ syncState.leaderId \in DOMAIN connectedBrowsers
              /\ age(syncState.leaderId) > BROWSER_TIMEOUT)
             => syncState'.leaderId = NoId]_vars
  /\ [](res.op = "browsers" =>
          \A b \in res.body.browsersList :
            b.lastSeen[1] <= roundSeconds(BROWSER_TIMEOUT + sweepInterval))

\* The leader, silent for more than 30001 ms, has just been deleted by the
\* tick 40000 ms after the start; nothing is left.
C11_Witness ==
  /\ res.op = "sweep" /\ res.previous # NoId
  /\ now = StartTime + BROWSER_TIMEOUT + sweepInterval
  /\ connectedBrowsers = EmptyObj
  /\ syncState.leaderId = NoId

\* The tf of the request answered by a step of an endpoint that registers
\* its caller.
CallerTf ==
  IF res'.op = "postState" THEN Get(res'.req, "tf", NoTf) ELSE res'.req.tf

\* C12: a request that registers a browser already in the registry and
\* carries no tf sets the record's lastSeen to now and keeps the tf the
\* record had.
C12_TagKept ==
  [][( /\ res'.op \in {"getState", "postState", "claim", "heartbeat"}
       /\ CallerId \in DOMAIN connectedBrowsers
       /\ CallerTf = NoTf )
     => /\ connectedBrowsers'[CallerId].lastSeen = now
        /\ connectedBrowsers'[CallerId].tf = connectedBrowsers[CallerId].tf]_vars

C14_HeartbeatMonotonic ==
  [][( /\ syncState.leaderId # NoId
       /\ syncState'.leaderId = syncState.leaderId )
     => syncState'.leaderHeartbeat >= syncState.leaderHeartbeat]_vars

\* C15: leaderId becomes empty only in a tick that deletes the leader's
\* record or in POST /reset, becomes another id only in a successful
\* POST /claim-leader of that id, and is never changed by GET /sync-state,
\* POST /sync-state, POST /heartbeat, GET /browsers, GET /health or GET /.
C15_LeaderChanges ==
  /\ [][syncState'.leaderId # syncState.leaderId =>
          IF syncState'.leaderId = NoId
            THEN \/ res'.op = "reset"
                 \/ /\ res'.op = "sweep"
                    /\ syncState.leaderId \in
                         (DOMAIN connectedBrowsers) \ (DOMAIN connectedBrowsers')
            ELSE /\ ClaimStep
                 /\ res'.body.success
                 /\ res'.req.browserId = syncState'.leaderId]_vars
  /\ [][res'.op \in {"getState", "postState", "heartbeat", "browsers",
                      "health", "root"}
        => syncState'.leaderId = syncState.leaderId]_vars

\* A tick has deleted the leader's record: leaderId is empty, and the other
\* browser, still registered, has not become leader by it.
C15_Witness ==
  /\ res.op = "sweep" /\ res.previous # NoId
  /\ syncState.leaderId = NoId
  /\ DOMAIN connectedBrowsers = Ids \ {res.previous}

\* C16: POST /heartbeat with a browserId registers it at now, never changes
\* leaderId, and sets leaderHeartbeat to now exactly when isLeader is set
\* and the browserId is leaderId; otherwise leaderHeartbeat is unchanged.
C16_HeartbeatExact ==
  [][(res'.op = "heartbeat" /\ res'.status = 200)
     => /\ syncState'.leaderId = syncState.leaderId
        /\ syncState'.leaderHeartbeat =
             IF res'.req.isLeader /\ res'.req.browserId = syncState.leaderId
               THEN now
               ELSE syncState.leaderHeartbeat
        /\ res'.req.browserId \in DOMAIN connectedBrowsers'
        /\ connectedBrowsers'[res'.req.browserId].lastSeen = now]_vars

\* A browser that is not the leader has sent a heartbeat with isLeader set,
\* later than the leader's last heartbeat, which stands.
C16_Witness ==
  /\ res.op = "heartbeat" /\ res.status = 200
  /\ res.req.isLeader
  /\ syncState.leaderId \notin {NoId, res.req.browserId}
  /\ syncState.leaderHeartbeat < now
  /\ connectedBrowsers[res.req.browserId].lastSeen = now

\* The fields of the election, which POST /sync-state does not merge.
Protected == {"leaderId", "leaderHeartbeat"}

\* C17: POST /sync-state from a sender that is not the leader stores every
\* field of the body but leaderId and leaderHeartbeat, keeps every other
\* field of syncState, leaderId and leaderHeartbeat included; and whenever
\* POST /sync-state changes leaderHeartbeat, the sender is the leader.
C17_NonLeaderMerges ==
  /\ [][( /\ res'.op = "postState"
          /\ \/ CallerId = NoId
             \/ CallerId # syncState.leaderId )
        => /\ DOMAIN syncState' =
                DOMAIN syncState \cup (DOMAIN res'.req \ Protected)
           /\ \A k \in DOMAIN res'.req \ Protected :
                syncState'[k] = res'.req[k]
           /\ \A k \in DOMAIN syncState \ (DOMAIN res'.req \ Protected) :
                syncState'[k] = syncState[k]]_vars
  /\ [][( /\ res'.op = "postState"
          /\ syncState'.leaderHeartbeat # syncState.leaderHeartbeat )
        => (CallerId # NoId /\ CallerId = syncState.leaderId)]_vars

\* A browser that is not the leader has posted a new field some time after
\* the leader's last heartbeat: the field is stored and the heartbeat stands.
C17_Witness ==
  /\ res.op = "postState"
  /\ DOMAIN res.req = {"leaderId", "symbol"}
  /\ syncState.leaderId \notin {NoId, res.req.leaderId}
  /\ syncState.leaderHeartbeat < now
  /\ "symbol" \in DOMAIN syncState
  /\ syncState.symbol = res.req.symbol

\* C18: when a tick deletes the leader's record, the leader's heartbeat is
\* more than 8000 ms old.
C18_EvictedLeaderTimedOut ==
  [][( /\ res'.op = "sweep"
       /\ syncState.leaderId \in
            (DOMAIN connectedBrowsers) \ (DOMAIN connectedBrowsers') )
     => now - syncState.leaderHeartbeat > leaderTimeout]_vars

\* C20 as stated: a record is 'leader' when its id is leaderId, else
\* 'warning' when it was last seen more than 10 s ago, else 'online'; none
\* is 'offline' and browsersOnline is totalBrowsers.
C20_Original ==
  /\ \A b \in Stats.browsersList :
       b.status = IF b.browserId = syncState.leaderId THEN "leader"
                  ELSE IF age(b.browserId) > 10000 THEN "warning"
                  ELSE "online"
  /\ Stats.browsersOnline = Stats.totalBrowsers

\* C20 amended: the 10 s test is on the age rounded to the nearest second:
\* a record is 'leader' when its id is leaderId, else 'warning' when it was
\* last seen 10500 ms ago or more, else 'online'; none is 'offline' and
\* browsersOnline is totalBrowsers.
C20_StatusTiers ==
  /\ \A b \in Stats.browsersList :
       b.status = IF b.browserId = syncState.leaderId THEN "leader"
                  ELSE IF age(b.browserId) >= 10500 THEN "warning"
                  ELSE "online"
  /\ Stats.browsersOnline = Stats.totalBrowsers

\* One browser last seen more than 20 s ago reads 'warning', another last
\* seen 10001 ms ago reads 'online'.
C20_Witness ==
  \E a, b \in Stats.browsersList :
    /\ a.status = "warning" /\ age(a.browserId) > 20000
    /\ b.status = "online" /\ age(b.browserId) = 10001

\* C19: when the leader is silent and the challenger keeps sending claims
\* without force, one of them eventually succeeds and the challenger is
\* leader, whatever leaderHeartbeat the leader left.
C19_FailoverLiveness ==
  (syncState.leaderId = Leader)
    ~> ( /\ Claimed /\ ~res.req.force
         /\ res.req.browserId = Challenger
         /\ res.body.success
         /\ syncState.leaderId = Challenger )

\* A claim of the challenger has displaced the silent leader, whose
\* heartbeat had timed out.
C19_Witness ==
  /\ Claimed /\ ~res.req.force
  /\ res.req.browserId = Challenger
  /\ res.body.success
  /\ res.previous = Leader /\ res.timedOut
  /\ now > StartTime + LastContact
  /\ syncState.leaderId = Challenger

====
